---------------------------- MODULE Spec2Model ----------------------------
(***************************************************************************)
(* A model of rhizomatic.py: the two cursor paginators (get_page_history   *)
(* and get_user_edit_history), title recovery from a URL, the offset       *)
(* recomputation and the CSV writer.                                       *)
(*                                                                         *)
(* Strings the code inspects character by character (URLs, hrefs, titles,  *)
(* CSV fields and the file) are sequences of one-character strings.        *)
(* Editor names and timestamps, which the code only copies or hands to     *)
(* dateutil, are TLA+ strings.                                              *)
(***************************************************************************)
EXTENDS Integers, Sequences, FiniteSets, TLC

VARIABLES
    pc,              \* "idle", "loop", "done" (returned), "raised", "exited"
    mode,            \* "none", "page" (get_page_history), "user" (get_user_edit_history)
    wiki_url,        \* get_page_history's wiki_url argument
    username,        \* get_user_edit_history's username argument
    title,           \* get_page_history's title
    limit,           \* the limit argument
    offset,          \* the cursor: <<>> is the empty string '', else the digits of the integer
    all_entries,     \* the accumulator
    fetches,         \* history: the requests issued, with the response each got
    fault,           \* the exception raised, or "none"
    listing,         \* the listing the server holds (listing server only)
    editing_history, \* write_tuples_to_csv's first argument
    file,            \* the content of the output path
    written          \* whether write_tuples_to_csv has run

vars == <<pc, mode, wiki_url, username, title, limit, offset, all_entries,
          fetches, fault, listing, editing_history, file, written>>

pagVars == <<pc, mode, wiki_url, username, title, limit, offset, all_entries,
             fetches, fault>>

csvVars == <<editing_history, file, written>>

-----------------------------------------------------------------------------
(* Bounds of the model *)

MaxFetch == 2
MaxCol == 2
MaxLimit == 2
MaxListing == 4
MaxUrlLen == 4
MaxRows == 2

(* Program constants *)

DefaultLimit == 500

-----------------------------------------------------------------------------
(* Helpers *)

Min(a, b) == IF a <= b THEN a ELSE b

SeqsUpTo(S, n) == UNION {[1..k -> S] : k \in 0..n}

RECURSIVE Flatten(_)
Flatten(ss) == IF ss = <<>> THEN <<>> ELSE Head(ss) \o Flatten(Tail(ss))

-----------------------------------------------------------------------------
(* Title recovery: re.search(r'.*/([^/]+)+', url)                           *)

\* '.' matches any character except a newline
Dot(c) == c # "\n"

\* [^/] matches any character except '/', newlines included
NotSlash(c) == c # "/"

\* Where '.*' stops when it takes all it can from position p: the last
\* position of the run of non-newline characters (p - 1 for an empty run)
RECURSIVE DotEnd(_, _)
DotEnd(s, p) == IF p <= Len(s) /\ Dot(s[p]) THEN DotEnd(s, p + 1) ELSE p - 1

\* '/' matches at q and [^/]+ finds at least one character after it
SlashThenSegment(s, q) ==
    q >= 1 /\ q + 1 <= Len(s) /\ s[q] = "/" /\ NotSlash(s[q + 1])

\* Faulty variant: a lazy '.*?' grows from nothing, so the first '/' wins
RECURSIVE LazySlash(_, _, _)
LazySlash(s, p, q) ==
    IF q > Len(s) \/ q > DotEnd(s, p) + 1 THEN 0
    ELSE IF SlashThenSegment(s, q) THEN q
    ELSE LazySlash(s, p, q + 1)

\* The greedy '.*' gives characters back one at a time, from q down to p,
\* until the rest of the pattern matches: the last '/' wins (0: no match)
RECURSIVE GreedySlash(_, _, _)
GreedySlash(s, p, q) ==
    IF q < p THEN 0
    ELSE IF SlashThenSegment(s, q) THEN q
    ELSE GreedySlash(s, p, q - 1)

\* Faulty variant: the '/' of the lazy match that starts at p
SlashOfLazy(s, p) == LazySlash(s, p, p)

\* The position of the '/' of the match that starts at p, 0 if none
SlashOf(s, p) == GreedySlash(s, p, Min(DotEnd(s, p) + 1, Len(s)))

\* The end of the greedy run [^/]+ that starts at position a
RECURSIVE RunEnd(_, _)
RunEnd(s, a) == IF a < Len(s) /\ NotSlash(s[a + 1]) THEN RunEnd(s, a + 1) ELSE a

\* re.search tries each start position in turn; group(1) is the last
\* iteration of ([^/]+)+, which the greedy inner + makes the whole run
RECURSIVE SearchFrom(_, _)
SearchFrom(s, p) ==
    IF p > Len(s) THEN [matched |-> FALSE, group1 |-> <<>>]
    ELSE IF SlashOf(s, p) = 0 THEN SearchFrom(s, p + 1)
    ELSE [matched |-> TRUE,
          group1 |-> SubSeq(s, SlashOf(s, p) + 1, RunEnd(s, SlashOf(s, p) + 1))]

re_search(s) == SearchFrom(s, 1)

-----------------------------------------------------------------------------
(* Offset recomputation: parser.parse, strftime('%Y%m%d%H%M%S'), int        *)

T1 == "2011-05-04T13:02:01"
T2 == "2011-05-04T13:02:00"
T3 == "2009-12-31T23:59:59"
Junk == "n/a"

\* dateutil's parser.parse on the timestamps the model serves; a string it
\* cannot read raises ParserError
parse(t) ==
    CASE t = T1 -> [ok |-> TRUE, Y |-> 2011, m |-> 5, d |-> 4, H |-> 13, M |-> 2, S |-> 1]
      [] t = T2 -> [ok |-> TRUE, Y |-> 2011, m |-> 5, d |-> 4, H |-> 13, M |-> 2, S |-> 0]
      [] t = T3 -> [ok |-> TRUE, Y |-> 2009, m |-> 12, d |-> 31, H |-> 23, M |-> 59, S |-> 59]
      [] OTHER  -> [ok |-> FALSE, Y |-> 0, m |-> 0, d |-> 0, H |-> 0, M |-> 0, S |-> 0]

\* A number as zero-padded decimal digits of the given width (%m, %d, ...)
RECURSIVE Digits(_, _)
Digits(n, width) ==
    IF width = 0 THEN <<>> ELSE Append(Digits(n \div 10, width - 1), n % 10)

\* last_page_date.strftime('%Y%m%d%H%M%S'): fourteen digits
strftime(dt) ==
    Digits(dt.Y, 4) \o Digits(dt.m, 2) \o Digits(dt.d, 2)
        \o Digits(dt.H, 2) \o Digits(dt.M, 2) \o Digits(dt.S, 2)

\* int() of a digit string, kept as its canonical decimal numeral (no
\* leading zeros): the f-string writes exactly these digits into the URL
RECURSIVE int(_)
int(ds) ==
    IF Len(ds) <= 1 THEN ds
    ELSE IF Head(ds) = 0 THEN int(Tail(ds)) ELSE ds

\* a < b for canonical numerals
RECURSIVE NumLess(_, _)
NumLess(a, b) ==
    IF Len(a) # Len(b) THEN Len(a) < Len(b)
    ELSE IF a = <<>> THEN FALSE
    ELSE IF Head(a) # Head(b) THEN Head(a) < Head(b)
    ELSE NumLess(Tail(a), Tail(b))

-----------------------------------------------------------------------------
(* What the server may answer *)

EditorAt(i) == IF i % 2 = 1 THEN "alice" ELSE "bob"

GoodHref == <<"/", "F">>
OtherHref == <<"/", "w", "/", "G">>
BadHref == <<"x">>

HrefAt(i) == IF i % 2 = 1 THEN GoodHref ELSE OtherHref

\* A page lists newest first; an unreadable timestamp sorts last
TimeRank(t) == CASE t = T1 -> 1 [] t = T2 -> 2 [] t = T3 -> 3 [] OTHER -> 4

Sorted(c) == \A i \in 1..(Len(c) - 1) : TimeRank(c[i]) <= TimeRank(c[i + 1])

PageTimes == {T1, T2, Junk}
ValidTimes == {T1, T2, T3}

EditorColumns(n) == {[i \in 1..k |-> EditorAt(i)] : k \in 0..n}
TimeColumns(n) == {c \in SeqsUpTo(PageTimes, n) : Sorted(c)}
HrefColumns(n) == SeqsUpTo({GoodHref, BadHref}, n)

NetworkFault ==
    [kind |-> "neterr", status |-> 0, editors |-> <<>>, edit_times |-> <<>>, hrefs |-> <<>>]

\* A response to a history request: a listing page, or an error status
\* whose body may still carry (short) list markup
PageResponses ==
    {NetworkFault}
    \cup [kind : {"http"}, status : {200}, editors : EditorColumns(MaxCol),
          edit_times : TimeColumns(MaxCol), hrefs : {<<>>}]
    \cup [kind : {"http"}, status : {500}, editors : EditorColumns(1),
          edit_times : TimeColumns(1), hrefs : {<<>>}]

\* A response to a contributions request
UserResponses ==
    {NetworkFault}
    \cup [kind : {"http"}, status : {200}, editors : {<<>>},
          edit_times : TimeColumns(MaxCol), hrefs : HrefColumns(MaxCol)]
    \cup [kind : {"http"}, status : {500}, editors : {<<>>},
          edit_times : TimeColumns(1), hrefs : HrefColumns(1)]

-----------------------------------------------------------------------------
(* The try statement around both loops *)

RequestException == {"ConnectionError", "HTTPError"}

\* except RequestException as e
ExceptCatches(exc) == exc \in RequestException

\* Faulty variant: a finally block that only cleans up lets the exception go on
FinallyFallsThrough == FALSE

\* finally: return all_entries -- the return discards an exception in flight
FinallyReturns == TRUE

\* Faulty variant: no handler at all, every exception leaves the function
AfterTryUnhandled(exc) == "raised"

\* Where control is after an exception inside the try block
AfterTry(exc) ==
    IF ExceptCatches(exc) \/ FinallyReturns THEN "done" ELSE "raised"

-----------------------------------------------------------------------------
(* One iteration of get_page_history's loop *)

\* Faulty variant: a strict zip that gives up on columns of unequal length
zipStrict(a, b) == IF Len(a) = Len(b) THEN Len(a) ELSE 0

\* zip stops at the shorter column
zipLen(a, b) == Min(Len(a), Len(b))

\* [(e,t,title) for e,t in zip(editors, edit_times)]
PageEntries(editors, edit_times, ttl) ==
    [i \in 1..zipLen(editors, edit_times) |-> <<editors[i], edit_times[i], ttl>>]

\* Faulty variant: stop on a page of at most limit records
IsShortOrFull(n, lim) == n <= lim

\* if len(page_entries) < limit: break
IsShort(n, lim) == n < lim

\* Faulty variant: the first element of the timestamp column
FirstTime(edit_times, n) == edit_times[1]

\* edit_times[-1]: the last element of the timestamp column; n is the
\* number of extracted records
LastTime(edit_times, n) == edit_times[Len(edit_times)]

\* The else branch: the next offset, or the exception raised computing it
NextOffset(edit_times, n, entries) ==
    IF edit_times = <<>>
    THEN [all_entries |-> entries, offset |-> <<>>, exc |-> "IndexError", brk |-> FALSE]
    ELSE LET last_page_date == parse(LastTime(edit_times, n))
         IN  IF ~last_page_date.ok
             THEN [all_entries |-> entries, offset |-> <<>>,
                   exc |-> "ParserError", brk |-> FALSE]
             ELSE [all_entries |-> entries, offset |-> int(strftime(last_page_date)),
                   exc |-> "none", brk |-> FALSE]

\* get_page_history never looks at the status of the response
PageStatusRaises(resp) == FALSE

\* Lines 55-67 on response resp
PageLoopBody(resp, entries, ttl, lim, off) ==
    IF resp.kind = "neterr"
    THEN [all_entries |-> entries, offset |-> off, exc |-> "ConnectionError", brk |-> FALSE]
    ELSE IF PageStatusRaises(resp)
    THEN [all_entries |-> entries, offset |-> off, exc |-> "HTTPError", brk |-> FALSE]
    ELSE LET page_entries == PageEntries(resp.editors, resp.edit_times, ttl)
             all == entries \o page_entries
         IN  IF IsShort(Len(page_entries), lim)
             THEN [all_entries |-> all, offset |-> off, exc |-> "none", brk |-> TRUE]
             ELSE LET nxt == NextOffset(resp.edit_times, Len(page_entries), all)
                  IN  IF nxt.exc = "none" THEN nxt ELSE [nxt EXCEPT !.offset = off]

(* One iteration of get_user_edit_history's loop *)

\* response.raise_for_status()
UserStatusRaises(resp) == resp.status >= 400

\* re.search(pattern, url) is None for some url: None.group raises
NoTitle(hrefs) == \E i \in 1..Len(hrefs) : ~re_search(hrefs[i]).matched

\* re.search(pattern, url).group(1), one element of edit_page_titles
TitleOf(url) == re_search(url).group1

\* [(username, time, title) for time,title in zip(edit_times, edit_page_titles)]
\* where edit_page_titles holds the title of each href, in order
UserEntries(user, edit_times, hrefs) ==
    [i \in 1..zipLen(edit_times, hrefs) |-> <<user, edit_times[i], TitleOf(hrefs[i])>>]

\* Lines 88-107 on response resp
UserLoopBody(resp, entries, user, lim, off) ==
    IF resp.kind = "neterr"
    THEN [all_entries |-> entries, offset |-> off, exc |-> "ConnectionError", brk |-> FALSE]
    ELSE IF UserStatusRaises(resp)
    THEN [all_entries |-> entries, offset |-> off, exc |-> "HTTPError", brk |-> FALSE]
    ELSE IF NoTitle(resp.hrefs)
    THEN [all_entries |-> entries, offset |-> off, exc |-> "AttributeError", brk |-> FALSE]
    ELSE LET page_entries == UserEntries(user, resp.edit_times, resp.hrefs)
             all == entries \o page_entries
         IN  IF IsShort(Len(page_entries), lim)
             THEN [all_entries |-> all, offset |-> off, exc |-> "none", brk |-> TRUE]
             ELSE LET nxt == NextOffset(resp.edit_times, Len(page_entries), all)
                  IN  IF nxt.exc = "none" THEN nxt ELSE [nxt EXCEPT !.offset = off]

-----------------------------------------------------------------------------
(* write_tuples_to_csv: csv.writer with the default dialect                 *)

Comma == ","
Quote == "\""
CR == "\r"
LF == "\n"

Header == << <<"e","d","i","t","o","r">>,
             <<"t","i","m","e","s","t","a","m","p">>,
             <<"p","a","g","e">> >>

\* Faulty variant: a writer that never quotes
NeverQuoted(f) == FALSE

\* QUOTE_MINIMAL: a field is quoted when it holds the delimiter, the quote
\* character or a character of the line terminator
NeedsQuote(f) == \E i \in 1..Len(f) : f[i] \in {Comma, Quote, CR, LF}

\* doublequote: each quote character inside a field is written twice
RECURSIVE Doubled(_)
Doubled(f) ==
    IF f = <<>> THEN <<>>
    ELSE (IF Head(f) = Quote THEN <<Quote, Quote>> ELSE <<Head(f)>>) \o Doubled(Tail(f))

WriteField(f) == IF NeedsQuote(f) THEN <<Quote>> \o Doubled(f) \o <<Quote>> ELSE f

\* writer.writerow: the fields joined by the delimiter, then '\r\n'
RECURSIVE Joined(_)
Joined(row) ==
    IF row = <<>> THEN <<>>
    ELSE IF Len(row) = 1 THEN WriteField(row[1])
    ELSE WriteField(Head(row)) \o <<Comma>> \o Joined(Tail(row))

writerow(row) == Joined(row) \o <<CR, LF>>

\* writer.writerows
RECURSIVE writerows(_)
writerows(rows) ==
    IF rows = <<>> THEN <<>> ELSE writerow(Head(rows)) \o writerows(Tail(rows))

\* Faulty variant: mode 'r+' writes over the old content and keeps its tail
OpenedInPlace(old, new) ==
    IF Len(old) > Len(new) THEN new \o SubSeq(old, Len(new) + 1, Len(old)) ELSE new

\* open(output_file, mode='w', newline=''): the old content is dropped and
\* nothing is translated
Opened(old, new) == new

-----------------------------------------------------------------------------
(* Inputs *)

Limits == 1..MaxLimit

PageUrls == {<<"/", "A">>, <<"A">>}

UrlChars == {"/", "a", "b"}

ExampleUrl ==
    <<"h","t","t","p","s",":","/","/","e","n",".","w","i","k","i","p","e","d","i","a",
      ".","o","r","g","/","w","i","k","i","/","A","_","T","r","o","u","b","l","e","s",
      "o","m","e","_","I","n","h","e","r","i","t","a","n","c","e">>

AllUrls == SeqsUpTo(UrlChars, MaxUrlLen) \cup {ExampleUrl}

Users == {"carol"}

\* Newest-first listings; two records may carry the same timestamp
Listings == {c \in SeqsUpTo(ValidTimes, MaxListing) : Sorted(c)}

\* Fields with every character the writer treats specially
CsvFields ==
    {<<>>, <<"a">>, <<Comma>>, <<Quote>>, <<LF>>, <<CR>>, <<"a", Quote, Comma>>}

Triples == {<<e, t, p>> : e \in CsvFields, t \in {<<"t">>, <<>>}, p \in {<<"P">>, <<Comma>>}}

\* What the output path may hold before the call; the last is longer than
\* a header line
PriorFiles == {<<>>, <<"o", "l", "d", CR, LF>>, [i \in 1..30 |-> "z"]}

-----------------------------------------------------------------------------
(* The state after construction *)

InitCommon ==
    /\ pc = "idle"
    /\ mode = "none"
    /\ wiki_url = <<>>
    /\ username = ""
    /\ title = <<>>
    /\ limit = DefaultLimit
    /\ offset = <<>>
    /\ all_entries = <<>>
    /\ fetches = <<>>
    /\ fault = "none"
    /\ editing_history = <<>>
    /\ file = <<>>
    /\ written = FALSE

Init == InitCommon /\ listing = <<>>

InitListing == InitCommon /\ listing \in Listings

-----------------------------------------------------------------------------
(* Entering the paginators *)

\* get_page_history(wiki_url, limit=lim), lines 35-46
GetPageHistory(url, lim) ==
    /\ pc = "idle"
    /\ LET page_match == re_search(url)
       IN  IF page_match.matched
           THEN /\ title' = page_match.group1
                /\ pc' = "loop"
                /\ fault' = "none"
           ELSE /\ title' = title
                /\ pc' = "raised"
                /\ fault' = "ValueError"
    /\ mode' = "page"
    /\ wiki_url' = url
    /\ limit' = lim
    /\ UNCHANGED <<username, offset, all_entries, fetches, listing>>
    /\ UNCHANGED csvVars

\* main with --page, lines 144-152: without --output the title is needed
\* for the file name first, and no title means sys.exit(1)
MainPage(url, has_output) ==
    /\ pc = "idle"
    /\ IF ~has_output /\ ~re_search(url).matched
       THEN /\ pc' = "exited"
            /\ mode' = "page"
            /\ wiki_url' = url
            /\ UNCHANGED <<username, title, limit, offset, all_entries, fetches, fault,
                           listing>>
            /\ UNCHANGED csvVars
       ELSE GetPageHistory(url, DefaultLimit)

\* get_user_edit_history(username, limit=lim), lines 75-81
GetUserEditHistory(user, lim) ==
    /\ pc = "idle"
    /\ pc' = "loop"
    /\ mode' = "user"
    /\ username' = user
    /\ limit' = lim
    /\ UNCHANGED <<wiki_url, title, offset, all_entries, fetches, fault, listing>>
    /\ UNCHANGED csvVars

\* main with --user, lines 153-156
MainUser(user) == GetUserEditHistory(user, DefaultLimit)

-----------------------------------------------------------------------------
(* The loops *)

\* What one iteration leaves behind
Iterate(resp, out) ==
    /\ fetches' = Append(fetches, [offset |-> offset, resp |-> resp])
    /\ all_entries' = out.all_entries
    /\ offset' = out.offset
    /\ fault' = out.exc
    /\ pc' = IF out.exc # "none" THEN AfterTry(out.exc)
             ELSE IF out.brk THEN "done" ELSE "loop"
    /\ UNCHANGED <<mode, wiki_url, username, title, limit, listing>>
    /\ UNCHANGED csvVars

PageIter(resp) ==
    \E out \in {PageLoopBody(resp, all_entries, title, limit, offset)} : Iterate(resp, out)

UserIter(resp) ==
    \E out \in {UserLoopBody(resp, all_entries, username, limit, offset)} : Iterate(resp, out)

\* One pass of get_page_history's while loop, any answer from the server
PageFetch ==
    /\ pc = "loop" /\ mode = "page"
    /\ Len(fetches) < MaxFetch
    /\ \E resp \in PageResponses : PageIter(resp)

\* One pass of get_user_edit_history's while loop, any answer from the server
UserFetch ==
    /\ pc = "loop" /\ mode = "user"
    /\ Len(fetches) < MaxFetch
    /\ \E resp \in UserResponses : UserIter(resp)

Next ==
    \/ \E u \in PageUrls, l \in Limits : GetPageHistory(u, l)
    \/ \E u \in PageUrls, o \in BOOLEAN : MainPage(u, o)
    \/ \E n \in Users, l \in Limits : GetUserEditHistory(n, l)
    \/ \E n \in Users : MainUser(n)
    \/ PageFetch
    \/ UserFetch

Spec == Init /\ [][Next]_vars

-----------------------------------------------------------------------------
(* A server that holds a finite listing and answers every request with up   *)
(* to limit records strictly older than the offset                          *)

\* The numeral the server files each timestamp under
NumeralTable == [t \in ValidTimes |-> int(strftime(parse(t)))]

Numeral(t) == NumeralTable[t]

\* The first position at or after i whose record is strictly older than off
\* (every position, for the empty offset); Len(lst) + 1 when there is none
RECURSIVE FirstOlder(_, _, _)
FirstOlder(lst, off, i) ==
    IF i > Len(lst) THEN i
    ELSE IF off = <<>> \/ NumLess(Numeral(lst[i]), off) THEN i
    ELSE FirstOlder(lst, off, i + 1)

\* The page the server answers a request for (off, lim) with: the first lim
\* records that are strictly older than off
ListingResponse(lst, off, lim, md) ==
    LET lo == FirstOlder(lst, off, 1)
        n == Min(lim, Len(lst) - lo + 1)
    IN  [kind |-> "http", status |-> 200,
         editors |-> IF md = "page" THEN [k \in 1..n |-> EditorAt(lo + k - 1)] ELSE <<>>,
         edit_times |-> [k \in 1..n |-> lst[lo + k - 1]],
         hrefs |-> IF md = "user" THEN [k \in 1..n |-> HrefAt(lo + k - 1)] ELSE <<>>]

ListingPageFetch ==
    /\ pc = "loop" /\ mode = "page"
    /\ \E resp \in {ListingResponse(listing, offset, limit, "page")} : PageIter(resp)

ListingUserFetch ==
    /\ pc = "loop" /\ mode = "user"
    /\ \E resp \in {ListingResponse(listing, offset, limit, "user")} : UserIter(resp)

NextListing ==
    \/ \E u \in PageUrls, l \in Limits : GetPageHistory(u, l)
    \/ \E u \in PageUrls, o \in BOOLEAN : MainPage(u, o)
    \/ \E n \in Users, l \in Limits : GetUserEditHistory(n, l)
    \/ \E n \in Users : MainUser(n)
    \/ ListingPageFetch
    \/ ListingUserFetch

ListingSpec == InitListing /\ [][NextListing]_vars /\ WF_vars(NextListing)

-----------------------------------------------------------------------------
(* Title recovery over every short URL, against a server with nothing to    *)
(* list                                                                     *)

NextTitle ==
    \/ \E u \in AllUrls, l \in Limits : GetPageHistory(u, l)
    \/ \E u \in AllUrls, o \in BOOLEAN : MainPage(u, o)
    \/ ListingPageFetch

TitleSpec == Init /\ [][NextTitle]_vars

-----------------------------------------------------------------------------
(* The writer on its own *)

InitCsv ==
    /\ pc = "idle"
    /\ mode = "none"
    /\ wiki_url = <<>>
    /\ username = ""
    /\ title = <<>>
    /\ limit = DefaultLimit
    /\ offset = <<>>
    /\ all_entries = <<>>
    /\ fetches = <<>>
    /\ fault = "none"
    /\ listing = <<>>
    /\ editing_history \in SeqsUpTo(Triples, MaxRows)
    /\ file \in PriorFiles
    /\ written = FALSE

\* write_tuples_to_csv(editing_history, output_file), lines 116-122
WriteTuplesToCsv ==
    /\ ~written
    /\ file' = Opened(file, writerow(Header) \o writerows(editing_history))
    /\ written' = TRUE
    /\ UNCHANGED <<editing_history, listing>>
    /\ UNCHANGED pagVars

NextCsv == WriteTuplesToCsv

CsvSpec == InitCsv /\ [][NextCsv]_vars

-----------------------------------------------------------------------------
(* What the specification expects, stated without the code's operators      *)

\* Two columns paired up to the end of the shorter one
RECURSIVE PairUp(_, _)
PairUp(a, b) ==
    IF a = <<>> \/ b = <<>> THEN <<>>
    ELSE <<<<Head(a), Head(b)>>>> \o PairUp(Tail(a), Tail(b))

RECURSIVE StripSlashes(_)
StripSlashes(s) ==
    IF s # <<>> /\ s[Len(s)] = "/" THEN StripSlashes(SubSeq(s, 1, Len(s) - 1)) ELSE s

RECURSIVE TailSegment(_)
TailSegment(s) ==
    IF s = <<>> \/ s[Len(s)] = "/" THEN <<>>
    ELSE Append(TailSegment(SubSeq(s, 1, Len(s) - 1)), s[Len(s)])

\* The last non-empty segment of a URL that a '/' introduces, reading the
\* URL from its end
LastSegment(url) ==
    LET t == StripSlashes(url)
        seg == TailSegment(t)
    IN  [found |-> seg # <<>> /\ Len(seg) < Len(t), seg |-> seg]

\* The yyyyMMddHHmmss numeral of each timestamp the model serves
ExpectedNumeral(t) ==
    CASE t = T1 -> <<2,0,1,1,0,5,0,4,1,3,0,2,0,1>>
      [] t = T2 -> <<2,0,1,1,0,5,0,4,1,3,0,2,0,0>>
      [] t = T3 -> <<2,0,0,9,1,2,3,1,2,3,5,9,5,9>>
      [] OTHER  -> <<>>

\* The records one response holds
RecordsOf(resp) ==
    IF resp.kind # "http" THEN <<>>
    ELSE IF mode = "page"
    THEN LET ps == PairUp(resp.editors, resp.edit_times)
         IN  [i \in 1..Len(ps) |-> <<ps[i][1], ps[i][2], title>>]
    ELSE LET ps == PairUp(resp.edit_times, resp.hrefs)
         IN  [i \in 1..Len(ps) |-> <<username, ps[i][1], LastSegment(ps[i][2]).seg>>]

\* The records of fetches 1..k, in fetch order
RecordsUpTo(k) == Flatten([i \in 1..k |-> RecordsOf(fetches[i].resp)])

\* The number of records fetch i yielded
Yield(i) == Len(RecordsOf(fetches[i].resp))

NFetches == Len(fetches)

-----------------------------------------------------------------------------
(* C1: with no fault, the loop of either paginator stops after exactly the  *)
(* first fetch that yields fewer than limit records: every earlier fetch    *)
(* yielded at least limit records, none follows the short page, and the     *)
(* result holds the records of all the fetches.  Page sizes [2, 1] with     *)
(* limit 2 stand for the fixture [500, 500, 137] with limit 500; a third    *)
(* fetch needs MaxFetch = 3.                                                *)
C1_StopsAtFirstShortPage ==
    (fault = "none" /\ pc \in {"loop", "done"}) =>
        /\ \A i \in 1..NFetches : Yield(i) < limit => (i = NFetches /\ pc = "done")
        /\ pc = "done" => (NFetches >= 1 /\ Yield(NFetches) < limit)
        /\ Len(all_entries) = Len(RecordsUpTo(NFetches))

C1_Witness ==
    /\ pc = "done" /\ fault = "none" /\ mode = "user" /\ limit = 2
    /\ NFetches = 2 /\ Yield(1) = 2 /\ Yield(2) = 1
    /\ Len(all_entries) = 3

(* C2: a network fault on fetch N >= 2 makes either paginator return        *)
(* exactly the records of fetches 1..N-1, in order; no fetch follows and no *)
(* exception escapes.                                                       *)
C2_NetworkFaultKeepsEarlierPages ==
    \A n \in 2..NFetches :
        fetches[n].resp.kind = "neterr" =>
            /\ n = NFetches
            /\ pc = "done"
            /\ all_entries = RecordsUpTo(n - 1)

C2_Witness ==
    /\ NFetches = 2 /\ fetches[2].resp.kind = "neterr"
    /\ mode = "page" /\ pc = "done"
    /\ Len(all_entries) = 2 /\ all_entries[1][1] = "alice" /\ all_entries[2][1] = "bob"

(* C4: whenever a paginator goes on after a page with at least limit        *)
(* records, the offset of the next fetch is the yyyyMMddHHmmss numeral of   *)
(* the timestamp of the last record appended to the accumulator, also when  *)
(* the timestamp column is the longer one.                                  *)
C4_OffsetIsLastRecordsTimestamp ==
    (pc = "loop" /\ NFetches >= 1) =>
        offset = ExpectedNumeral(all_entries[Len(all_entries)][2])

(* C5: a page-history run returns the concatenation, in fetch order, of     *)
(* each fetched page's editors paired with its timestamps up to the shorter *)
(* column, each with the fixed title; the record count is the sum of the    *)
(* per-page minima, and a column mismatch raises nothing.                   *)
C5_PageHistoryIsConcatenatedPairs ==
    (mode = "page" /\ pc \in {"loop", "done", "raised"} /\ NFetches >= 1) =>
        LET last == fetches[NFetches].resp
        IN  /\ all_entries = RecordsUpTo(NFetches)
            /\ \A i \in 1..NFetches :
                 fetches[i].resp.kind = "http" =>
                     Yield(i) = Min(Len(fetches[i].resp.editors),
                                    Len(fetches[i].resp.edit_times))
            /\ (last.kind = "http" /\ Len(last.editors) # Len(last.edit_times)
                /\ fault # "none")
                  => (fault = "ParserError"
                      /\ last.edit_times[Len(last.edit_times)] = Junk)

C5_Witness ==
    /\ mode = "page" /\ pc = "loop" /\ fault = "none" /\ NFetches = 2
    /\ Len(fetches[1].resp.editors) < Len(fetches[1].resp.edit_times)
    /\ Len(fetches[2].resp.editors) > Len(fetches[2].resp.edit_times)
    /\ Len(all_entries) = 2

(* C8: an extraction fault inside the loop on fetch N (a contribution link  *)
(* with no title, or an unreadable last timestamp) is swallowed: no fetch   *)
(* follows, no exception escapes, and the accumulator is returned as it     *)
(* stood; a missing title leaves the records of fetches 1..N-1 only.        *)
C8_ExtractionFaultIsSwallowed ==
    /\ fault = "AttributeError" =>
          /\ pc = "done" /\ mode = "user"
          /\ all_entries = RecordsUpTo(NFetches - 1)
          /\ \E i \in 1..Len(fetches[NFetches].resp.hrefs) :
                 ~LastSegment(fetches[NFetches].resp.hrefs[i]).found
    /\ fault = "ParserError" =>
          /\ pc = "done"
          /\ all_entries = RecordsUpTo(NFetches)
    /\ \A i \in 1..NFetches :
          (/\ fetches[i].resp.kind = "http"
           /\ mode = "user"
           /\ fetches[i].resp.status < 400
           /\ \E j \in 1..Len(fetches[i].resp.hrefs) :
                  ~LastSegment(fetches[i].resp.hrefs[j]).found)
             => (i = NFetches /\ fault = "AttributeError")

C8_Witness ==
    /\ fault = "AttributeError" /\ pc = "done" /\ NFetches = 2
    /\ Len(all_entries) = 2
    /\ Len(fetches[2].resp.edit_times) = 2

C8_WitnessParse ==
    /\ fault = "ParserError" /\ pc = "done" /\ NFetches = 2 /\ Len(all_entries) = 3

(* C9: in both modes an error status on fetch N ends the loop at that       *)
(* fetch: nothing of that response's body is appended, no fetch follows,    *)
(* and the records of fetches 1..N-1 are returned.                          *)
C9_ErrorStatusEndsTheLoop ==
    \A n \in 1..NFetches :
        (fetches[n].resp.kind = "http" /\ fetches[n].resp.status >= 400) =>
            /\ n = NFetches
            /\ pc = "done"
            /\ all_entries = RecordsUpTo(n - 1)

-----------------------------------------------------------------------------
(* Claims about the listing server *)

\* Every record of the listing, in listing order
FullListing ==
    [i \in 1..Len(listing) |->
        IF mode = "page" THEN <<EditorAt(i), listing[i], title>>
        ELSE <<username, listing[i], LastSegment(HrefAt(i)).seg>>]

(* C3: a fault-free run against the listing server returns every record of  *)
(* the listing exactly once, in listing order, also when records share a    *)
(* timestamp.                                                               *)
C3_EveryRecordExactlyOnce ==
    (pc = "done" /\ fault = "none") => all_entries = FullListing

\* offset a is strictly below offset b; the empty offset is above them all
Below(a, b) == a # <<>> /\ (b = <<>> \/ NumLess(a, b))

C10_Safe ==
    /\ \A i \in 1..(NFetches - 1) : Below(fetches[i + 1].offset, fetches[i].offset)
    /\ \A i, j \in 1..NFetches : i # j => fetches[i].offset # fetches[j].offset
    /\ (pc = "loop" /\ NFetches >= 1) => Below(offset, fetches[NFetches].offset)
    /\ pc \in {"loop", "done"} => NFetches <= (Len(listing) \div limit) + 1

(* C10: against the listing server the offset strictly decreases from one   *)
(* fetch to the next, no offset is requested twice, the paginator returns,  *)
(* and it does so within floor(n / limit) + 1 fetches for n records.        *)
C10_TerminatesOnFiniteListing ==
    /\ []C10_Safe
    /\ (pc = "loop") ~> (pc = "done")

C10_Witness ==
    /\ pc = "done" /\ limit = 2 /\ Len(listing) = 4 /\ NFetches = 3
    /\ Len(all_entries) = 4

-----------------------------------------------------------------------------
(* Claims about title recovery *)

ExampleTitle ==
    <<"A","_","T","r","o","u","b","l","e","s","o","m","e","_",
      "I","n","h","e","r","i","t","a","n","c","e">>

(* C7: get_page_history's title is the last non-empty segment of the URL    *)
(* that a '/' introduces, also when the URL ends in '/'; with no such       *)
(* segment it raises (or main exits) before any fetch, and nothing more     *)
(* happens.                                                                 *)
C7_TitleIsLastSegment ==
    mode = "page" =>
        LET ls == LastSegment(wiki_url)
        IN  /\ ls.found => (pc \in {"loop", "done"} /\ title = ls.seg)
            /\ ~ls.found => (/\ pc \in {"raised", "exited"}
                             /\ fetches = <<>>
                             /\ all_entries = <<>>
                             /\ ~ENABLED NextTitle)
            /\ wiki_url = ExampleUrl => title = ExampleTitle

C7_Witness ==
    /\ wiki_url = <<"a", "/", "b", "/">> /\ title = <<"b">>
    /\ pc = "done" /\ NFetches = 1

C7_WitnessRaise ==
    /\ wiki_url = <<"a", "/">> /\ pc = "raised" /\ fetches = <<>>

-----------------------------------------------------------------------------
(* Claims about the writer *)

\* csv.reader with the default dialect, one character at a time.  st is
\* "record" (at the start of a line), "field" (after a delimiter),
\* "unquoted", "quoted" or "closing" (after a quote inside a quoted field).
RECURSIVE ReadFrom(_, _, _, _, _, _)
ReadFrom(s, i, st, fld, row, rows) ==
    IF i > Len(s)
    THEN IF st = "record" THEN rows ELSE Append(rows, Append(row, fld))
    ELSE LET c == s[i]
             eol == IF c = CR /\ i < Len(s) /\ s[i + 1] = LF THEN i + 2 ELSE i + 1
         IN  IF st = "quoted"
             THEN IF c = Quote THEN ReadFrom(s, i + 1, "closing", fld, row, rows)
                  ELSE ReadFrom(s, i + 1, "quoted", Append(fld, c), row, rows)
             ELSE IF c = Comma
             THEN ReadFrom(s, i + 1, "field", <<>>, Append(row, fld), rows)
             ELSE IF c \in {CR, LF}
             THEN ReadFrom(s, eol, "record", <<>>, <<>>, Append(rows, Append(row, fld)))
             ELSE IF c = Quote /\ st \in {"record", "field"}
             THEN ReadFrom(s, i + 1, "quoted", fld, row, rows)
             ELSE IF c = Quote /\ st = "closing"
             THEN ReadFrom(s, i + 1, "quoted", Append(fld, c), row, rows)
             ELSE ReadFrom(s, i + 1, "unquoted", Append(fld, c), row, rows)

ReadCsv(s) == ReadFrom(s, 1, "record", <<>>, <<>>, <<>>)

HeaderLine ==
    <<"e","d","i","t","o","r",",","t","i","m","e","s","t","a","m","p",",",
      "p","a","g","e","\r","\n">>

(* C6: after write_tuples_to_csv the file is the header row                 *)
(* editor,timestamp,page followed by one row per triple in input order,     *)
(* whatever the path held before; reading the file back gives the header    *)
(* and the same rows in the same order.                                     *)
C6_WriterRoundTrips ==
    written =>
        /\ ReadCsv(file) = <<Header>> \o editing_history
        /\ SubSeq(file, 1, Len(HeaderLine)) = HeaderLine
        /\ editing_history = <<>> => file = HeaderLine

C6_Witness ==
    /\ written
    /\ Len(editing_history) = 2
    /\ editing_history[1][1] = <<"a", Quote, Comma>>
    /\ editing_history[2][1] = <<LF>>
    /\ Len(ReadCsv(file)) = 3

=============================================================================
